---- MODULE Spec2Model ----
(***************************************************************************)
(* Model of src/app.py ("Vendas Simples"): the SQLite store with its two   *)
(* tables, the two time-to-live memoized readers (load_products,           *)
(* load_sales), the three writers (add_product, update_product_price,      *)
(* add_sale) and the dashboard's window computations.                      *)
(*                                                                         *)
(* Text is a sequence of character codes, money is an integer (price and   *)
(* revenue in the same unit), a date is the ordinal of a day of the year   *)
(* 2024 (1 is January 1st) and a datetime is [date, sec, us].              *)
(***************************************************************************)
EXTENDS Integers, Sequences, FiniteSets, TLC

VARIABLES products, sales, sqlite_sequence, cache, last, ret, dash

vars == <<products, sales, sqlite_sequence, cache, last, ret, dash>>

(***************************************************************************)
(* Bounds of the model.                                                    *)
(***************************************************************************)
MaxProdSeq == 2
MaxSales == 2
TickStep == 5

(***************************************************************************)
(* Program constants.                                                      *)
(***************************************************************************)
TTL == 10
WindowDays == 6

(***************************************************************************)
(* Text: character codes, str.strip(), SQLite's BINARY collation.          *)
(***************************************************************************)
\* the ASCII characters str.strip() removes (32 is the space)
Whitespace == {9, 10, 11, 12, 13, 28, 29, 30, 31, 32}

RECURSIVE LStrip(_)
LStrip(s) ==
  IF s # <<>> /\ Head(s) \in Whitespace THEN LStrip(Tail(s)) ELSE s

RECURSIVE RStrip(_)
RStrip(s) ==
  IF s # <<>> /\ s[Len(s)] \in Whitespace
  THEN RStrip(SubSeq(s, 1, Len(s) - 1))
  ELSE s

Strip(s) == RStrip(LStrip(s))

RECURSIVE TextLess(_, _)
TextLess(a, b) ==
  IF b = <<>> THEN FALSE
  ELSE IF a = <<>> THEN TRUE
  ELSE IF Head(a) # Head(b) THEN Head(a) < Head(b)
  ELSE TextLess(Tail(a), Tail(b))

(***************************************************************************)
(* Calendar of the year 2024 (a leap year).                                *)
(***************************************************************************)
MonthLen == <<31, 29, 31, 30, 31, 30, 31, 31, 30, 31, 30, 31>>

RECURSIVE DaysBefore(_)
DaysBefore(m) == IF m = 1 THEN 0 ELSE DaysBefore(m - 1) + MonthLen[m - 1]

MonthOf(n) ==
  CHOOSE m \in 1..12 : DaysBefore(m) < n /\ n <= DaysBefore(m) + MonthLen[m]

DayOf(n) == n - DaysBefore(MonthOf(n))

ToOrdinal(m, d) == DaysBefore(m) + d

DateTime(n, s, u) == [date |-> n, sec |-> s, us |-> u]

\* datetime comparison: date, then time of day, then microsecond
DtLess(x, y) ==
  \/ x.date < y.date
  \/ x.date = y.date /\ x.sec < y.sec
  \/ x.date = y.date /\ x.sec = y.sec /\ x.us < y.us

DtGeq(x, y) == ~DtLess(x, y)

\* datetime - timedelta(days=k)
MinusDays(x, k) == [x EXCEPT !.date = x.date - k]

\* date.replace(day=1)
ReplaceDay1(n) == ToOrdinal(MonthOf(n), 1)

(***************************************************************************)
(* datetime.isoformat() and pandas.to_datetime() on its output.            *)
(***************************************************************************)
RECURSIVE Digits(_, _)
Digits(k, width) ==
  IF width = 0 THEN <<>>
  ELSE Append(Digits(k \div 10, width - 1), 48 + (k % 10))

RECURSIVE Number(_)
Number(t) ==
  IF t = <<>> THEN 0
  ELSE 10 * Number(SubSeq(t, 1, Len(t) - 1)) + (t[Len(t)] - 48)

IsoFormat(x) ==
  <<50, 48, 50, 52>> \o <<45>> \o Digits(MonthOf(x.date), 2) \o <<45>>
    \o Digits(DayOf(x.date), 2) \o <<84>>
    \o Digits(x.sec \div 3600, 2) \o <<58>>
    \o Digits((x.sec \div 60) % 60, 2) \o <<58>>
    \o Digits(x.sec % 60, 2)
    \o (IF x.us = 0 THEN <<>> ELSE <<46>> \o Digits(x.us, 6))

ToDatetime(t) ==
  [date |-> ToOrdinal(Number(SubSeq(t, 6, 7)), Number(SubSeq(t, 9, 10))),
   sec  |-> 3600 * Number(SubSeq(t, 12, 13)) + 60 * Number(SubSeq(t, 15, 16))
              + Number(SubSeq(t, 18, 19)),
   us   |-> IF Len(t) > 19 THEN Number(SubSeq(t, 21, 26)) ELSE 0]

(***************************************************************************)
(* Ordered results: the row of a finite set at each rank of a strict       *)
(* total order, given as the set of pairs <<x, y>> with x before y.        *)
(***************************************************************************)
OrderBy(S, before) ==
  [i \in 1..Cardinality(S) |->
     CHOOSE x \in S : Cardinality({y \in S : <<y, x>> \in before}) = i - 1]

Range(s) == {s[i] : i \in 1..Len(s)}

RECURSIVE SumRevenue(_)
SumRevenue(rows) ==
  IF rows = <<>> THEN 0 ELSE Head(rows).revenue + SumRevenue(Tail(rows))

(***************************************************************************)
(* The store: products(id, name, price), sales(id, product_id, qty,        *)
(* sold_at) and sqlite_sequence, the AUTOINCREMENT high-water marks.       *)
(***************************************************************************)
NoError == ""
CheckFailed == "IntegrityError: CHECK constraint failed"
ForeignKeyFailed == "IntegrityError: FOREIGN KEY constraint failed"

ProductRow(id, name, price) == [id |-> id, name |-> name, price |-> price]

SaleRow(id, product_id, qty, sold_at) ==
  [id |-> id, product_id |-> product_id, qty |-> qty, sold_at |-> sold_at]

\* a schema without the CHECK on price
CheckPriceOff(price) == TRUE

\* CHECK(price >= 0)
CheckPrice(price) == price >= 0

\* CHECK(qty > 0)
CheckQty(qty) == qty > 0

\* name TEXT UNIQUE
NameTaken(name) == \E p \in products : p.name = name

\* FOREIGN KEY(product_id) REFERENCES products(id), PRAGMA foreign_keys = ON
ProductExists(id) == \E p \in products : p.id = id

(***************************************************************************)
(* st.cache_data(ttl=10): one entry per memoized function (neither takes   *)
(* arguments); an entry is dropped once its age reaches the ttl.           *)
(***************************************************************************)
EmptyEntry == [valid |-> FALSE, age |-> 0, value |-> <<>>]

Entry(v) == [valid |-> TRUE, age |-> 0, value |-> v]

\* the value a memoized call returns
Memoized(f, computed) == IF cache[f].valid THEN cache[f].value ELSE computed

\* the cache after a memoized call
Stored(f, computed) ==
  IF cache[f].valid THEN cache ELSE [cache EXCEPT ![f] = Entry(computed)]

\* f.clear()
Cleared(f) == [cache EXCEPT ![f] = EmptyEntry]

Aged(e, dt) ==
  IF e.valid /\ e.age + dt < TTL THEN [e EXCEPT !.age = @ + dt] ELSE EmptyEntry

(***************************************************************************)
(* The call history: the last call with its arguments and outcome; a read  *)
(* also records the write it follows.                                      *)
(***************************************************************************)
NoTime == DateTime(1, 0, 0)

Call(op, name, price, id, qty, err) ==
  [op |-> op, name |-> name, price |-> price, id |-> id, qty |-> qty,
   err |-> err, after |-> ""]

Writes == {"add_product", "update_product_price", "add_sale"}

\* the write a read follows, when the preceding call is a write that committed
Preceding == IF last.op \in Writes /\ last.err = NoError THEN last.op ELSE ""

Read(op) == [Call(op, <<>>, 0, 0, 0, NoError) EXCEPT !.after = Preceding]

EmptyDash ==
  [rendered |-> FALSE, now |-> NoTime, start |-> 1, end |-> 1,
   group_by |-> "", sales |-> <<>>, sales_today |-> <<>>, last7 |-> <<>>,
   month_df |-> <<>>, kpi1 |-> 0, kpi2 |-> 0, kpi3 |-> 0,
   day_group |-> <<>>, week_group |-> <<>>, month_group |-> <<>>]

(***************************************************************************)
(* The queries.                                                            *)
(***************************************************************************)
\* SELECT id, name, price FROM products ORDER BY name
SelectProducts ==
  OrderBy(products,
          {xy \in products \X products : TextLess(xy[1].name, xy[2].name)})

\* SELECT ... FROM sales s JOIN products p ON p.id = s.product_id
JoinRows ==
  {[id |-> s.id, product_id |-> s.product_id, product |-> p.name,
    price |-> p.price, qty |-> s.qty, sold_at |-> s.sold_at] :
     <<s, p>> \in {sp \in sales \X products : sp[1].product_id = sp[2].id}}

\* ORDER BY s.sold_at DESC, s.id DESC
SalesBefore(x, y) ==
  \/ TextLess(y.sold_at, x.sold_at)
  \/ x.sold_at = y.sold_at /\ x.id > y.id

SelectSales ==
  OrderBy(JoinRows,
          {xy \in JoinRows \X JoinRows : SalesBefore(xy[1], xy[2])})

\* df["sold_at"] = pd.to_datetime(...); df["revenue"] = df["qty"] * df["price"]
WithRevenue(df) ==
  [i \in 1..Len(df) |->
     [id |-> df[i].id, product_id |-> df[i].product_id,
      product |-> df[i].product, price |-> df[i].price, qty |-> df[i].qty,
      sold_at |-> ToDatetime(df[i].sold_at),
      revenue |-> df[i].qty * df[i].price]]

SalesFrame == WithRevenue(SelectSales)

(***************************************************************************)
(* Operations.                                                             *)
(***************************************************************************)
Init ==
  /\ products = {}
  /\ sales = {}
  /\ sqlite_sequence = [products |-> 0, sales |-> 0]
  /\ cache = [load_products |-> EmptyEntry, load_sales |-> EmptyEntry]
  /\ last = Call("ensure_db", <<>>, 0, 0, 0, NoError)
  /\ ret = <<>>
  /\ dash = EmptyDash

\* CREATE TABLE IF NOT EXISTS: both tables exist after construction
ensure_db ==
  /\ last' = Call("ensure_db", <<>>, 0, 0, 0, NoError)
  /\ ret' = <<>>
  /\ dash' = EmptyDash
  /\ UNCHANGED <<products, sales, sqlite_sequence, cache>>

load_products ==
  /\ ret' = Memoized("load_products", SelectProducts)
  /\ cache' = Stored("load_products", SelectProducts)
  /\ last' = Read("load_products")
  /\ dash' = EmptyDash
  /\ UNCHANGED <<products, sales, sqlite_sequence>>

\* INSERT OR IGNORE skips the row on a CHECK or UNIQUE conflict
InsertIgnored(name, price) == ~CheckPrice(price) \/ NameTaken(name)

\* INSERT OR REPLACE in place of INSERT OR IGNORE
ProductsAfterInsertReplace(name, price) ==
  IF ~CheckPrice(price) THEN products
  ELSE {p \in products : p.name # name}
         \cup {ProductRow(sqlite_sequence.products + 1, name, price)}

ProductsAfterInsert(name, price) ==
  IF InsertIgnored(name, price) THEN products
  ELSE products \cup {ProductRow(sqlite_sequence.products + 1, name, price)}

\* a product write that forgets load_products.clear()
CacheAfterProductWriteKept == cache

CacheAfterProductWrite == Cleared("load_products")

\* the rowid is drawn before the conflict is found, and the high-water mark
\* is kept even when the row is ignored
add_product(name, price) ==
  /\ sqlite_sequence.products < MaxProdSeq
  /\ products' = ProductsAfterInsert(Strip(name), price)
  /\ sqlite_sequence' = [sqlite_sequence EXCEPT !.products = @ + 1]
  /\ cache' = CacheAfterProductWrite
  /\ last' = Call("add_product", name, price, 0, 0, NoError)
  /\ ret' = <<>>
  /\ dash' = EmptyDash
  /\ UNCHANGED sales

\* UPDATE products SET price = ? WHERE id = ?
UpdateError(prod_id, new_price) ==
  IF ProductExists(prod_id) /\ ~CheckPrice(new_price)
  THEN CheckFailed ELSE NoError

\* an UPDATE without its WHERE clause
ProductsAfterUpdateAll(prod_id, new_price) ==
  {[p EXCEPT !.price = new_price] : p \in products}

ProductsAfterUpdate(prod_id, new_price) ==
  {IF p.id = prod_id THEN [p EXCEPT !.price = new_price] ELSE p :
     p \in products}

update_product_price(prod_id, new_price) ==
  LET err == UpdateError(prod_id, new_price) IN
  /\ IF err = NoError
     THEN /\ products' = ProductsAfterUpdate(prod_id, new_price)
          /\ cache' = CacheAfterProductWrite
     ELSE UNCHANGED <<products, cache>>
  /\ last' = Call("update_product_price", <<>>, new_price, prod_id, 0, err)
  /\ ret' = <<>>
  /\ dash' = EmptyDash
  /\ UNCHANGED <<sales, sqlite_sequence>>

\* a connection without PRAGMA foreign_keys = ON
SaleErrorNoForeignKeys(product_id, qty) ==
  IF ~CheckQty(qty) THEN CheckFailed ELSE NoError

\* INSERT INTO sales: the CHECK is evaluated on the row, the foreign key
\* at the end of the statement
SaleError(product_id, qty) ==
  IF ~CheckQty(qty) THEN CheckFailed
  ELSE IF ~ProductExists(product_id) THEN ForeignKeyFailed
  ELSE NoError

CacheAfterSaleWrite == cache

add_sale(product_id, qty, sold_at) ==
  LET iso == IsoFormat(sold_at)
      err == SaleError(product_id, qty) IN
  /\ err = NoError => Cardinality(sales) < MaxSales
  /\ IF err = NoError
     THEN /\ sales' = sales \cup
                {SaleRow(sqlite_sequence.sales + 1, product_id, qty, iso)}
          /\ sqlite_sequence' = [sqlite_sequence EXCEPT !.sales = @ + 1]
          /\ cache' = CacheAfterSaleWrite
     ELSE UNCHANGED <<sales, sqlite_sequence, cache>>
  /\ last' = Call("add_sale", <<>>, 0, product_id, qty, err)
  /\ ret' = <<>>
  /\ dash' = EmptyDash
  /\ UNCHANGED products

load_sales ==
  /\ ret' = Memoized("load_sales", SalesFrame)
  /\ cache' = Stored("load_sales", SalesFrame)
  /\ last' = Read("load_sales")
  /\ dash' = EmptyDash
  /\ UNCHANGED <<products, sales, sqlite_sequence>>

\* time passes between two interactions
Tick ==
  /\ cache' = [f \in DOMAIN cache |-> Aged(cache[f], TickStep)]
  /\ UNCHANGED <<products, sales, sqlite_sequence, last, ret, dash>>

(***************************************************************************)
(* section_dashboard: the sale listing, the three fixed windows computed   *)
(* from now, their sums and their buckets.  The widgets of the "Filtros"   *)
(* expander are read into start, end and group_by.                         *)
(***************************************************************************)
\* df.groupby("product", as_index=False)["revenue"].sum()
GroupByProduct(rows) ==
  LET buckets ==
        {[product |-> k,
          revenue |-> SumRevenue(SelectSeq(rows, LAMBDA r : r.product = k))] :
           k \in {r.product : r \in Range(rows)}} IN
  OrderBy(buckets,
          {xy \in buckets \X buckets : TextLess(xy[1].product, xy[2].product)})

\* df.groupby("d", as_index=False)["revenue"].sum(), d the calendar date
GroupByDay(rows) ==
  LET buckets ==
        {[d |-> k,
          revenue |-> SumRevenue(SelectSeq(rows,
                                           LAMBDA r : r.sold_at.date = k))] :
           k \in {r.sold_at.date : r \in Range(rows)}} IN
  OrderBy(buckets, {xy \in buckets \X buckets : xy[1].d < xy[2].d})

\* sales[sales["date"] == today]
SalesToday(df, now) == SelectSeq(df, LAMBDA r : r.sold_at.date = now.date)

\* sales[sales["sold_at"] >= (now - timedelta(days=6))]
Last7(df, now) ==
  SelectSeq(df, LAMBDA r : DtGeq(r.sold_at, MinusDays(now, WindowDays)))

\* sales[(sales["date"] >= month_start) & (sales["date"] <= today)]
MonthDf(df, now) ==
  SelectSeq(df, LAMBDA r : /\ r.sold_at.date >= ReplaceDay1(now.date)
                           /\ r.sold_at.date <= now.date)

Rendered(df, now, start, end, group_by) ==
  LET sales_today == SalesToday(df, now)
      last7 == Last7(df, now)
      month_df == MonthDf(df, now) IN
  [rendered |-> TRUE, now |-> now, start |-> start, end |-> end,
   group_by |-> group_by, sales |-> df,
   sales_today |-> sales_today,
   last7 |-> last7,
   month_df |-> month_df,
   kpi1 |-> SumRevenue(sales_today),
   kpi2 |-> SumRevenue(last7),
   kpi3 |-> SumRevenue(month_df),
   day_group |-> GroupByProduct(sales_today),
   week_group |-> GroupByDay(last7),
   month_group |-> GroupByDay(month_df)]

section_dashboard(now, start, end, group_by) ==
  LET df == Memoized("load_sales", SalesFrame) IN
  /\ cache' = Stored("load_sales", SalesFrame)
  /\ dash' = IF df = <<>> THEN EmptyDash
             ELSE Rendered(df, now, start, end, group_by)
  /\ last' = Call("section_dashboard", <<>>, 0, 0, 0, NoError)
  /\ ret' = <<>>
  /\ UNCHANGED <<products, sales, sqlite_sequence>>

(***************************************************************************)
(* The inputs of the calls and the two specifications.                     *)
(***************************************************************************)
NextOver(names, prices, ids, qtys, times, nows, dates, groupings) ==
  \/ ensure_db
  \/ load_products
  \/ \E name \in names, price \in prices : add_product(name, price)
  \/ \E id \in ids, price \in prices : update_product_price(id, price)
  \/ \E id \in ids, qty \in qtys, at \in times : add_sale(id, qty, at)
  \/ load_sales
  \/ \E now \in nows, start \in dates, end \in dates, g \in groupings :
       section_dashboard(now, start, end, g)
  \/ Tick

\* "a", " a " and "b"
Names == {<<97>>, <<32, 97, 32>>, <<98>>}
Prices == {-1, 0, 3}
Ids == {1, 2}
Qtys == {0, 2}

\* March 3rd is day 63, February 26th day 57 and February 25th day 56
Today == ToOrdinal(3, 3)

Times == {DateTime(Today, 36000, 500000)}

Next ==
  NextOver(Names, Prices, Ids, Qtys, Times, {DateTime(Today, 43200, 0)},
           {Today}, {"Dia"})

Spec == Init /\ [][Next]_vars

DashTimes ==
  {DateTime(Today - 7, 86340, 0), DateTime(Today - 6, 60, 0),
   DateTime(Today, 28800, 0), DateTime(Today, 28800, 250000)}

DashNows == {DateTime(Today, 30, 0), DateTime(Today, 43200, 0)}

DashDates == {Today - 7, Today - 1}

NextDash ==
  NextOver({<<97>>}, {3}, {1}, {2}, DashTimes, DashNows, DashDates,
           {"Dia", "Produto"})

SpecDash == Init /\ [][NextDash]_vars

(***************************************************************************)
(* Properties.                                                             *)
(***************************************************************************)
PriceOf(id) == (CHOOSE p \in products : p.id = id).price

\* ret holds exactly one row for the stored sale s, priced at price
Lists(rows, s, price) ==
  /\ Cardinality({i \in 1..Len(rows) : rows[i].id = s.id}) = 1
  /\ \A i \in 1..Len(rows) :
       rows[i].id = s.id =>
         /\ rows[i].product_id = s.product_id
         /\ rows[i].qty = s.qty
         /\ rows[i].price = price
         /\ rows[i].revenue = s.qty * price

\* C1: a load_sales that directly follows a successful add_sale returns a
\* row for the sale just added, with revenue = qty x the product's current
\* price.
ReadYourSale ==
  (last.op = "load_sales" /\ last.after = "add_sale") =>
    \E s \in sales :
      /\ s.id = sqlite_sequence.sales
      /\ Lists(ret, s, PriceOf(s.product_id))

\* C2: a load_sales that directly follows a successful
\* update_product_price(id, newPrice) returns every existing sale of that
\* product with price = newPrice and revenue = qty x newPrice.
PriceChangeVisible ==
  [][(/\ last.op = "update_product_price"
      /\ last.err = NoError
      /\ last'.op = "load_sales")
       => \A s \in sales : s.product_id = last.id => Lists(ret', s, last.price)]_vars

\* C3: add_product with a name whose trimmed form is already stored leaves
\* the products table unchanged (one row of that name, its id and price
\* those of the first insert) and does not raise.
IdempotentInsert ==
  [][(last'.op = "add_product" /\ NameTaken(Strip(last'.name)))
       => /\ products' = products
          /\ Cardinality({p \in products' : p.name = Strip(last'.name)}) = 1
          /\ last'.err = NoError]_vars

IdempotentInsertWitness ==
  /\ last.op = "add_product"
  /\ CheckPrice(last.price)
  /\ last.name # Strip(last.name)
  /\ \E p \in products : p.name = Strip(last.name) /\ p.price # last.price

\* C4, as stated: add_sale for a product that does not exist fails with the
\* foreign-key error, add_sale with qty <= 0 fails with the CHECK error, and
\* in both cases the two tables are as before.
SaleRejectedAsStated ==
  [][last'.op = "add_sale"
       => /\ ~ProductExists(last'.id) => last'.err = ForeignKeyFailed
          /\ last'.qty <= 0 => last'.err = CheckFailed
          /\ (~ProductExists(last'.id) \/ last'.qty <= 0)
               => products' = products /\ sales' = sales]_vars

\* C4, amended: add_sale with qty <= 0 fails with the CHECK error (whether
\* or not the product exists), add_sale with qty > 0 for a product that does
\* not exist fails with the foreign-key error, and in both cases the two
\* tables are as before.
SaleRejected ==
  [][last'.op = "add_sale"
       => /\ last'.qty <= 0 => last'.err = CheckFailed
          /\ (last'.qty > 0 /\ ~ProductExists(last'.id))
               => last'.err = ForeignKeyFailed
          /\ (~ProductExists(last'.id) \/ last'.qty <= 0)
               => products' = products /\ sales' = sales]_vars

SaleRejectedWitness ==
  /\ last.op = "add_sale"
  /\ last.err = ForeignKeyFailed
  /\ ~ProductExists(last.id)
  /\ sales # {}

\* C5: the "last 7 days" frame of a dashboard rendered on day D holds every
\* listed sale of day D-6 and no listed sale of day D-7, whatever the time
\* of day.
RollingWeek ==
  dash.rendered =>
    \A i \in 1..Len(dash.sales) :
      LET r == dash.sales[i] IN
      /\ r.sold_at.date = dash.now.date - 6 => r \in Range(dash.last7)
      /\ r.sold_at.date = dash.now.date - 7 => r \notin Range(dash.last7)

\* C6: the frames the dashboard's buckets are computed from hold exactly the
\* listed sales whose calendar date lies in [start, end]: a sale outside the
\* range is in no frame, a sale inside it is in one.
Contributes(r) ==
  \/ r \in Range(dash.sales_today)
  \/ r \in Range(dash.last7)
  \/ r \in Range(dash.month_df)

DateRangeBuckets ==
  dash.rendered =>
    \A i \in 1..Len(dash.sales) :
      LET r == dash.sales[i] IN
      Contributes(r) <=>
        (dash.start <= r.sold_at.date /\ r.sold_at.date <= dash.end)

\* C7: a load_products that directly follows a committed add_product or
\* update_product_price returns the products table as it is in the store.
ReadYourProducts ==
  (/\ last.op = "load_products"
   /\ last.after \in {"add_product", "update_product_price"})
    => /\ Range(ret) = products
       /\ Len(ret) = Cardinality(products)

ReadYourProductsWitness ==
  /\ last.op = "load_products"
  /\ last.after = "update_product_price"
  /\ Len(ret) = 2
  /\ Range(ret) = products

\* C8: every product has price >= 0, no two products share a name, every
\* sale has qty > 0 and every sale's product_id names a stored product.
StoreIntegrity ==
  /\ \A p \in products : p.price >= 0
  /\ \A p, q \in products : p.name = q.name => p = q
  /\ \A s \in sales : s.qty > 0
  /\ \A s \in sales : \E p \in products : p.id = s.product_id

StoreIntegrityWitness ==
  /\ Cardinality(products) = 2
  /\ sales # {}
  /\ last.op = "update_product_price"
  /\ last.err = CheckFailed

\* C9, as stated: update_product_price on an id no product has leaves the
\* products table unchanged and raises nothing; otherwise that product's
\* price becomes newPrice and nothing else changes, in products or in sales.
Repriced(before, after, id, price) ==
  \E p \in before :
    /\ p.id = id
    /\ after = (before \ {p}) \cup {[p EXCEPT !.price = price]}

PriceOnlyAsStated ==
  [][last'.op = "update_product_price"
       => /\ sales' = sales
          /\ IF ProductExists(last'.id)
             THEN Repriced(products, products', last'.id, last'.price)
             ELSE products' = products /\ last'.err = NoError]_vars

\* C9, amended: update_product_price on an id no product has leaves the
\* products table unchanged and raises nothing; on an existing id with
\* newPrice >= 0 that product's price becomes newPrice and nothing else
\* changes; on an existing id with newPrice < 0 it raises the CHECK error
\* and changes nothing.  The sales table is unchanged in every case.
PriceOnly ==
  [][last'.op = "update_product_price"
       => /\ sales' = sales
          /\ IF ~ProductExists(last'.id)
             THEN products' = products /\ last'.err = NoError
             ELSE IF last'.price >= 0
             THEN /\ Repriced(products, products', last'.id, last'.price)
                  /\ last'.err = NoError
             ELSE products' = products /\ last'.err = CheckFailed]_vars

PriceOnlyWitness ==
  /\ last.op = "update_product_price"
  /\ last.err = NoError
  /\ sales # {}
  /\ \E p, q \in products :
       p.id = last.id /\ p.price = last.price /\ q.price # p.price

\* C10: load_sales returns every stored sale exactly once, latest
\* timestamp first and, among equal timestamps, highest id first.
SalesListing ==
  last.op = "load_sales" =>
    /\ Len(ret) = Cardinality(sales)
    /\ \A s \in sales : \E i \in 1..Len(ret) : ret[i].id = s.id
    /\ \A i \in 1..(Len(ret) - 1) :
         \/ DtLess(ret[i + 1].sold_at, ret[i].sold_at)
         \/ ret[i].sold_at = ret[i + 1].sold_at /\ ret[i].id > ret[i + 1].id

====
